---- MODULE Spec2Model ----
(***************************************************************************)
(* Patchpilot: the token-aware context manager (context/manager.py), the   *)
(* session that streams an exchange (session/manager.py) and the provider  *)
(* retry loop (client/nvidia.py).                                          *)
(*                                                                         *)
(* Python str values are TLA+ strings; Len, SubSeq and \o act on them      *)
(* character by character, so slicing, prefix tests and the token          *)
(* estimate are computed on the real texts.  Optional[str] is a sequence   *)
(* of length 0 (None) or 1.  A Python None / True / False return value is  *)
(* the string "None" / "True" / "False".                                   *)
(***************************************************************************)
EXTENDS Integers, Sequences, FiniteSets, TLC

VARIABLES
    system_prompt,      \* the system_prompt argument of the constructor
    system,             \* self._system
    max_total,          \* self._max_total
    max_file_tokens,    \* self._max_file_tokens
    max_convo,          \* self._max_convo
    file_messages,      \* self._file_messages
    convo_messages,     \* self._convo_messages
    pinned_files,       \* self._pinned_files
    call,               \* the last method called, with its arguments and what
                        \* held of its path when it was called
    ret,                \* its return value ("None", "True", "False")
    built,              \* the list returned, when the last call was build_messages()
    _store,             \* FileManager._store: (path, raw content) in insertion order
    max_retries,        \* NvidiaProvider._max_retries
    pc,                 \* where SessionManager.send and the stream generator stand
    user_message,       \* send's user_message argument
    record_in_history,  \* send's record_in_history argument
    messages,           \* the list send hands to the provider
    full_response,      \* send's accumulator
    attempt,            \* the loop variable of NvidiaProvider.stream
    display,            \* the Display calls of this send, in order
    result,             \* what send returned (Optional[str])
    outcome,            \* how the exchange ended
    creates,            \* chat.completions.create calls of this send
    waits,              \* the time.sleep arguments of this send, in order
    transients,         \* attempts of this send that failed transiently
    attempt_content,    \* the content yielded by the current attempt
    chunks,             \* raw chunks the current completion has delivered
    sends               \* send calls so far

config_vars == <<system_prompt, system, max_total, max_file_tokens, max_convo>>

ctx_vars == <<config_vars, file_messages, convo_messages, pinned_files,
              call, ret, built>>

send_vars == <<pc, user_message, record_in_history, messages, full_response,
               attempt, display, result, outcome, creates, waits, transients,
               attempt_content, chunks, sends>>

vars == <<ctx_vars, _store, max_retries, send_vars>>

(***************************************************************************)
(* Bounds of the model.                                                    *)
(***************************************************************************)
\* add_user / add_assistant are not called on a conversation already this long
MaxConvoLen == 3
\* raw chunks one completion delivers at most
MaxChunks == 2
\* send calls of one behaviour
MaxSends == 2
\* characters of a text whose estimate is taken
MaxTextLen == 9

(***************************************************************************)
(* Python helpers.                                                         *)
(***************************************************************************)
Max(a, b) == IF a >= b THEN a ELSE b
Min(a, b) == IF a <= b THEN a ELSE b

\* s[:n]
SliceTo(s, n) ==
    IF n >= 0 THEN SubSeq(s, 1, Min(n, Len(s)))
              ELSE SubSeq(s, 1, Max(Len(s) + n, 0))

\* s[i:]
SliceFrom(s, i) ==
    IF i >= 0 THEN SubSeq(s, Min(i, Len(s)) + 1, Len(s))
              ELSE SubSeq(s, Max(Len(s) + i, 0) + 1, Len(s))

\* s.startswith(prefix)
startswith(s, prefix) ==
    /\ Len(prefix) <= Len(s)
    /\ SubSeq(s, 1, Len(prefix)) = prefix

RECURSIVE Rep(_, _)
Rep(s, n) == IF n <= 0 THEN "" ELSE s \o Rep(s, n - 1)

\* position (1-based) of the first "\n" of s, or Len(s) + 1
RECURSIVE FirstNewline(_, _)
FirstNewline(s, i) ==
    IF i > Len(s) THEN i
    ELSE IF SubSeq(s, i, i) = "\n" THEN i
    ELSE FirstNewline(s, i + 1)

\* s.split("\n", 1)[0]
FirstLine(s) == SubSeq(s, 1, FirstNewline(s, 1) - 1)

(***************************************************************************)
(* os.path.abspath for the paths of the model: an absolute path is         *)
(* returned as it is, a relative one is joined to the working directory.   *)
(***************************************************************************)
Cwd == "/w"
abspath(path) == IF startswith(path, "/") THEN path ELSE Cwd \o "/" \o path

(***************************************************************************)
(* Inputs.                                                                 *)
(***************************************************************************)
\* paths given to pin_file / unpin_file / remove_file: two absolute ones
\* and a relative spelling of the second
Paths == {"/w/a.py", "/w/b.py", "b.py"}
\* FileManager.load canonicalises before upsert_file
LoadedPaths == {abspath(p) : p \in Paths}

ShortText  == "x = 1\n"
LongText   == "import os\n" \o Rep("abcdefghi\n", 24) \o "# the end\n"
FileTexts  == {ShortText, LongText}

UserTexts      == {Rep("why? ", 20)}
AssistantTexts == {"ok"}
EphemeralArgs  == {<<>>, <<"">>, <<Rep("fix it! ", 5)>>}

SystemPrompts    == {"You are a helpful AI assistant."}
MaxTotalChoices  == {5, 30, 1000}
MaxFileChoices   == {10, 50, 60}
MaxConvoChoices  == {0, 2}

\* the streaming session: contexts without documents, one of them with a
\* budget that only the system message fits
SendTexts           == {"hi"}
SendMaxTotalChoices == {7, 1000}
SendMaxConvoChoices == {1, 2}
MaxRetriesChoices   == {0, 1, 2}
\* Config.MAX_RETRIES and Config.RETRY_DELAY (in tenths of a second)
MAX_RETRIES == 3
RETRY_DELAY == 15

(***************************************************************************)
(* Message                                                                 *)
(***************************************************************************)
Message(role, content) == [role |-> role, content |-> content]

\* an estimate without the floor of one token
token_estimate_unfloored(m) == Len(m.content) \div 4

token_estimate(m) == Max(1, Len(m.content) \div 4)

to_dict(m) == [role |-> m.role, content |-> m.content]

RECURSIVE SumTokens(_)
SumTokens(msgs) ==
    IF msgs = <<>> THEN 0 ELSE token_estimate(Head(msgs)) + SumTokens(Tail(msgs))

(***************************************************************************)
(* File layer                                                              *)
(***************************************************************************)
FILE_TAG == "[PROJECT_FILE] "
TRUNCATION_MARKER == "\n\n/* ...TRUNCATED... (tail follows) */\n\n"

_apply_file_budget(content) ==
    LET max_chars == max_file_tokens * 4
        half      == max_chars \div 2
        head      == SliceTo(content, half)
        tail      == SliceFrom(content, -(half - 100))
    IN  IF Len(content) <= max_chars THEN content
        ELSE head \o TRUNCATION_MARKER \o tail

\* the list comprehension of upsert_file and remove_file
without_entry(msgs, tag) ==
    SelectSeq(msgs, LAMBDA m : ~startswith(m.content, tag \o "\n"))

\* any(m.content.startswith(f"[PROJECT_FILE] {path}\n") ...), path canonical
has_entry(path) ==
    \E i \in 1..Len(file_messages) :
        startswith(file_messages[i].content, FILE_TAG \o path \o "\n")

(***************************************************************************)
(* Inspection                                                              *)
(***************************************************************************)
\* file_paths() over a list of file messages
file_paths_of(msgs) ==
    LET first_line == [i \in 1..Len(msgs) |-> FirstLine(msgs[i].content)]
        tagged     == SelectSeq(first_line, LAMBDA l : startswith(l, FILE_TAG))
    IN  [i \in 1..Len(tagged) |-> SliceFrom(tagged[i], Len(FILE_TAG))]

file_paths == file_paths_of(file_messages)

\* a total that also counts the ephemeral message of the latest build
estimated_total_tokens_with_ephemeral ==
    token_estimate(system)
    + SumTokens(file_messages)
    + SumTokens(convo_messages)
    + (IF call.op = "build_messages" /\ call.ephemeral # <<>>
       THEN token_estimate(Message("user", call.ephemeral[1])) ELSE 0)

estimated_total_tokens ==
    token_estimate(system)
    + SumTokens(file_messages)
    + SumTokens(convo_messages)

\* position of the first file message tagged with path, 0 when there is none
slot_of(path) ==
    LET S == {i \in 1..Len(file_messages) :
                 startswith(file_messages[i].content, FILE_TAG \o path \o "\n")}
    IN  IF S = {} THEN 0 ELSE CHOOSE i \in S : \A j \in S : i <= j

\* the record of a call: its arguments, and for a call that takes a path the
\* slot of that path's entry and its pin status at the time of the call
Call(op, path_arg, force, content, ephemeral) ==
    [op |-> op, path |-> path_arg, force |-> force, content |-> content,
     ephemeral |-> ephemeral,
     slot |-> IF path_arg = "" THEN 0 ELSE slot_of(abspath(path_arg)),
     pinned |-> path_arg # "" /\ abspath(path_arg) \in pinned_files]

\* mutant: the existing entry is not removed before the append
upsert_file_append_only(path, content) ==
    LET tag      == FILE_TAG \o path
        budgeted == _apply_file_budget(content)
    IN  /\ file_messages' =
              Append(file_messages, Message("user", tag \o "\n" \o budgeted))
        /\ call' = Call("upsert_file", path, FALSE, content, <<>>)
        /\ ret' = "None"
        /\ built' = <<>>
        /\ UNCHANGED <<config_vars, convo_messages, pinned_files>>

\* mutant: an existing entry is replaced where it stands
upsert_file_in_place(path, content) ==
    LET tag      == FILE_TAG \o path
        budgeted == _apply_file_budget(content)
        new      == Message("user", tag \o "\n" \o budgeted)
    IN  /\ file_messages' =
              IF slot_of(path) = 0 THEN Append(file_messages, new)
              ELSE [file_messages EXCEPT ![slot_of(path)] = new]
        /\ call' = Call("upsert_file", path, FALSE, content, <<>>)
        /\ ret' = "None"
        /\ built' = <<>>
        /\ UNCHANGED <<config_vars, convo_messages, pinned_files>>

\* mutant: the upserted document loses its pin
upsert_file_unpin(path, content) ==
    LET tag      == FILE_TAG \o path
        budgeted == _apply_file_budget(content)
    IN  /\ file_messages' =
              Append(without_entry(file_messages, tag),
                     Message("user", tag \o "\n" \o budgeted))
        /\ call' = Call("upsert_file", path, FALSE, content, <<>>)
        /\ ret' = "None"
        /\ built' = <<>>
        /\ pinned_files' = pinned_files \ {path}
        /\ UNCHANGED <<config_vars, convo_messages>>

upsert_file(path, content) ==
    LET tag      == FILE_TAG \o path
        budgeted == _apply_file_budget(content)
    IN  /\ file_messages' =
              Append(without_entry(file_messages, tag),
                     Message("user", tag \o "\n" \o budgeted))
        /\ call' = Call("upsert_file", path, FALSE, content, <<>>)
        /\ ret' = "None"
        /\ built' = <<>>
        /\ UNCHANGED <<config_vars, convo_messages, pinned_files>>

\* mutant: the pin is not discarded
remove_file_keep_pin(path_arg, force) ==
    LET path == abspath(path_arg)
        tag  == FILE_TAG \o path
    IN  /\ call' = Call("remove_file", path_arg, force, "", <<>>)
        /\ IF path \in pinned_files /\ ~force
           THEN /\ ret' = "False"
                /\ UNCHANGED <<file_messages, pinned_files>>
           ELSE /\ file_messages' = without_entry(file_messages, tag)
                /\ UNCHANGED pinned_files
                /\ ret' = "True"
        /\ built' = <<>>
        /\ UNCHANGED <<config_vars, convo_messages>>

\* mutant: the pin check is missing
remove_file_ignore_pin(path_arg, force) ==
    LET path == abspath(path_arg)
        tag  == FILE_TAG \o path
    IN  /\ call' = Call("remove_file", path_arg, force, "", <<>>)
        /\ file_messages' = without_entry(file_messages, tag)
        /\ pinned_files' = pinned_files \ {path}
        /\ ret' = "True"
        /\ built' = <<>>
        /\ UNCHANGED <<config_vars, convo_messages>>

\* mutant: a forced removal clears the whole pin set
remove_file_clear_pins(path_arg, force) ==
    LET path == abspath(path_arg)
        tag  == FILE_TAG \o path
    IN  /\ call' = Call("remove_file", path_arg, force, "", <<>>)
        /\ IF path \in pinned_files /\ ~force
           THEN /\ ret' = "False"
                /\ UNCHANGED <<file_messages, pinned_files>>
           ELSE /\ file_messages' = without_entry(file_messages, tag)
                /\ pinned_files' = IF force THEN {} ELSE pinned_files \ {path}
                /\ ret' = "True"
        /\ built' = <<>>
        /\ UNCHANGED <<config_vars, convo_messages>>

\* mutant: removing a path that has no entry reports failure
remove_file_strict(path_arg, force) ==
    LET path == abspath(path_arg)
        tag  == FILE_TAG \o path
    IN  /\ call' = Call("remove_file", path_arg, force, "", <<>>)
        /\ IF path \in pinned_files /\ ~force
           THEN /\ ret' = "False"
                /\ UNCHANGED <<file_messages, pinned_files>>
           ELSE /\ file_messages' = without_entry(file_messages, tag)
                /\ pinned_files' = pinned_files \ {path}
                /\ ret' = IF has_entry(path) THEN "True" ELSE "False"
        /\ built' = <<>>
        /\ UNCHANGED <<config_vars, convo_messages>>

remove_file(path_arg, force) ==
    LET path == abspath(path_arg)
        tag  == FILE_TAG \o path
    IN  /\ call' = Call("remove_file", path_arg, force, "", <<>>)
        /\ IF path \in pinned_files /\ ~force
           THEN /\ ret' = "False"
                /\ UNCHANGED <<file_messages, pinned_files>>
           ELSE /\ file_messages' = without_entry(file_messages, tag)
                /\ pinned_files' = pinned_files \ {path}
                /\ ret' = "True"
        /\ built' = <<>>
        /\ UNCHANGED <<config_vars, convo_messages>>

(***************************************************************************)
(* Conversation layer                                                      *)
(***************************************************************************)
_trim_convo(convo) ==
    IF Len(convo) > max_convo THEN SliceFrom(convo, -max_convo) ELSE convo

add_user(content) ==
    /\ Len(convo_messages) < MaxConvoLen
    /\ convo_messages' = _trim_convo(Append(convo_messages, Message("user", content)))
    /\ call' = Call("add_user", "", FALSE, content, <<>>)
    /\ ret' = "None"
    /\ built' = <<>>
    /\ UNCHANGED <<config_vars, file_messages, pinned_files>>

add_assistant(content) ==
    /\ Len(convo_messages) < MaxConvoLen
    /\ convo_messages' = _trim_convo(Append(convo_messages, Message("assistant", content)))
    /\ call' = Call("add_assistant", "", FALSE, content, <<>>)
    /\ ret' = "None"
    /\ built' = <<>>
    /\ UNCHANGED <<config_vars, file_messages, pinned_files>>

\* mutant: the reset clears the documents and the pins as well
reset_convo_all ==
    /\ convo_messages' = <<>>
    /\ file_messages' = <<>>
    /\ pinned_files' = {}
    /\ call' = Call("reset_convo", "", FALSE, "", <<>>)
    /\ ret' = "None"
    /\ built' = <<>>
    /\ UNCHANGED config_vars

reset_convo ==
    /\ convo_messages' = <<>>
    /\ call' = Call("reset_convo", "", FALSE, "", <<>>)
    /\ ret' = "None"
    /\ built' = <<>>
    /\ UNCHANGED <<config_vars, file_messages, pinned_files>>

(***************************************************************************)
(* Build                                                                   *)
(***************************************************************************)
\* the ephemeral list of build_messages: empty for None and for ""
ephemeral_list(ephemeral_user_content) ==
    IF ephemeral_user_content # <<>> /\ ephemeral_user_content[1] # ""
    THEN <<Message("user", ephemeral_user_content[1])>>
    ELSE <<>>

total_tokens(convo, ephemeral) ==
    token_estimate(system) + SumTokens(file_messages)
        + SumTokens(convo) + SumTokens(ephemeral)

\* mutant: an over-budget conversation is dropped whole
drop_oldest_all(convo, ephemeral) ==
    IF total_tokens(convo, ephemeral) > max_total /\ convo # <<>>
    THEN <<>>
    ELSE convo

\* while total_tokens(convo) > self._max_total and convo: convo.pop(0)
RECURSIVE drop_oldest(_, _)
drop_oldest(convo, ephemeral) ==
    IF total_tokens(convo, ephemeral) > max_total /\ convo # <<>>
    THEN drop_oldest(Tail(convo), ephemeral)
    ELSE convo

\* mutant: the emergency stage applies the storage budget again
compress_to_budget(m) ==
    Message(m.role, _apply_file_budget(m.content))

\* the emergency compression of one file message
compress(m) ==
    Message(m.role, _apply_file_budget(SliceTo(m.content, max_file_tokens * 2)))

\* mutant: the emergency stage shrinks every message, the system one too
build_messages_list_shrink_all(ephemeral_user_content) ==
    LET ephemeral == ephemeral_list(ephemeral_user_content)
        convo     == drop_oldest(convo_messages, ephemeral)
        over      == total_tokens(convo, ephemeral) > max_total
        file_msgs == IF over
                     THEN [i \in 1..Len(file_messages) |-> compress(file_messages[i])]
                     ELSE file_messages
        all_messages == <<IF over THEN compress(system) ELSE system>>
                            \o file_msgs \o convo \o ephemeral
    IN  [i \in 1..Len(all_messages) |-> to_dict(all_messages[i])]

\* mutant: the documents are compressed as soon as the stored conversation
\* does not fit, whether or not dropping turns was enough
build_messages_list_eager(ephemeral_user_content) ==
    LET ephemeral == ephemeral_list(ephemeral_user_content)
        convo     == drop_oldest(convo_messages, ephemeral)
        file_msgs == IF total_tokens(convo_messages, ephemeral) > max_total
                     THEN [i \in 1..Len(file_messages) |-> compress(file_messages[i])]
                     ELSE file_messages
        all_messages == <<system>> \o file_msgs \o convo \o ephemeral
    IN  [i \in 1..Len(all_messages) |-> to_dict(all_messages[i])]

\* mutant: the ephemeral message is placed before the conversation
build_messages_list_ephemeral_first(ephemeral_user_content) ==
    LET ephemeral == ephemeral_list(ephemeral_user_content)
        convo     == drop_oldest(convo_messages, ephemeral)
        file_msgs == IF total_tokens(convo, ephemeral) > max_total
                     THEN [i \in 1..Len(file_messages) |-> compress(file_messages[i])]
                     ELSE file_messages
        all_messages == <<system>> \o file_msgs \o ephemeral \o convo
    IN  [i \in 1..Len(all_messages) |-> to_dict(all_messages[i])]

build_messages_list(ephemeral_user_content) ==
    LET ephemeral == ephemeral_list(ephemeral_user_content)
        convo     == drop_oldest(convo_messages, ephemeral)
        file_msgs == IF total_tokens(convo, ephemeral) > max_total
                     THEN [i \in 1..Len(file_messages) |-> compress(file_messages[i])]
                     ELSE file_messages
        all_messages == <<system>> \o file_msgs \o convo \o ephemeral
    IN  [i \in 1..Len(all_messages) |-> to_dict(all_messages[i])]

\* mutant: the conversation that was dropped for the list is dropped for good
build_messages_forgetful(ephemeral_user_content) ==
    /\ built' = build_messages_list(ephemeral_user_content)
    /\ call' = Call("build_messages", "", FALSE, "", ephemeral_user_content)
    /\ ret' = "None"
    /\ convo_messages' = drop_oldest(convo_messages,
                                      ephemeral_list(ephemeral_user_content))
    /\ UNCHANGED <<config_vars, file_messages, pinned_files>>

build_messages(ephemeral_user_content) ==
    /\ built' = build_messages_list(ephemeral_user_content)
    /\ call' = Call("build_messages", "", FALSE, "", ephemeral_user_content)
    /\ ret' = "None"
    /\ UNCHANGED <<config_vars, file_messages, convo_messages, pinned_files>>

(***************************************************************************)
(* Pinning                                                                 *)
(***************************************************************************)
\* mutant: the path is pinned whether or not it is loaded
pin_file_unchecked(path_arg) ==
    LET path == abspath(path_arg)
    IN  /\ call' = Call("pin_file", path_arg, FALSE, "", <<>>)
        /\ pinned_files' = pinned_files \cup {path}
        /\ ret' = "True"
        /\ built' = <<>>
        /\ UNCHANGED <<config_vars, file_messages, convo_messages>>

pin_file(path_arg) ==
    LET path == abspath(path_arg)
    IN  /\ call' = Call("pin_file", path_arg, FALSE, "", <<>>)
        /\ IF has_entry(path)
           THEN /\ pinned_files' = pinned_files \cup {path}
                /\ ret' = "True"
           ELSE /\ ret' = "False"
                /\ UNCHANGED pinned_files
        /\ built' = <<>>
        /\ UNCHANGED <<config_vars, file_messages, convo_messages>>

unpin_file(path_arg) ==
    LET path == abspath(path_arg)
    IN  /\ pinned_files' = pinned_files \ {path}
        /\ call' = Call("unpin_file", path_arg, FALSE, "", <<>>)
        /\ ret' = "None"
        /\ built' = <<>>
        /\ UNCHANGED <<config_vars, file_messages, convo_messages>>

get_stats ==
    LET tagged == SelectSeq(file_messages,
                            LAMBDA m : startswith(m.content, FILE_TAG))
        file_stats ==
            [i \in 1..Len(tagged) |->
                LET path == SliceFrom(FirstLine(tagged[i].content), Len(FILE_TAG))
                IN  [path   |-> path,
                     tokens |-> token_estimate(tagged[i]),
                     pinned |-> path \in pinned_files]]
    IN  [total_tokens   |-> estimated_total_tokens,
         max_total      |-> max_total,
         file_count     |-> Len(file_messages),
         pinned_count   |-> Cardinality(pinned_files),
         convo_messages |-> Len(convo_messages),
         files          |-> file_stats]

(***************************************************************************)
(* FileManager                                                             *)
(***************************************************************************)
store_paths(store) == [i \in 1..Len(store) |-> store[i].path]

\* self._store[path] = content
store_set(store, path, content) ==
    IF \E i \in 1..Len(store) : store[i].path = path
    THEN [i \in 1..Len(store) |->
             IF store[i].path = path THEN [path |-> path, content |-> content]
                                     ELSE store[i]]
    ELSE Append(store, [path |-> path, content |-> content])

\* self._store.pop(path, None)
store_pop(store, path) == SelectSeq(store, LAMBDA e : e.path # path)

\* FileManager.load of a file that _read delivers as content
load(path_arg, content) ==
    LET path == abspath(path_arg)
    IN  /\ _store' = store_set(_store, path, content)
        /\ upsert_file(path, content)

\* FileManager.unload
unload(path_arg, force) ==
    /\ remove_file(abspath(path_arg), force)
    /\ _store' = IF ret' = "True" THEN store_pop(_store, abspath(path_arg))
                                  ELSE _store

\* one unload(p, force) of the loop of unload_all, on the state
\* st = [files, pins, store, count]
unload_one(st, p, force) ==
    LET path == abspath(p)
        tag  == FILE_TAG \o path
    IN  IF path \in st.pins /\ ~force
        THEN st
        ELSE [files |-> without_entry(st.files, tag),
              pins  |-> st.pins \ {path},
              store |-> store_pop(st.store, path),
              count |-> st.count + 1]

RECURSIVE unload_each(_, _, _)
unload_each(paths, st, force) ==
    IF paths = <<>> THEN st
    ELSE unload_each(Tail(paths), unload_one(st, Head(paths), force), force)

\* an unload_all that forces every unload
unload_all_forced(keep_pinned) ==
    LET st == unload_each(store_paths(_store),
                          [files |-> file_messages, pins |-> pinned_files,
                           store |-> _store, count |-> 0],
                          TRUE)
    IN  /\ file_messages' = st.files
        /\ pinned_files' = st.pins
        /\ _store' = st.store
        /\ call' = Call("unload_all", "", ~keep_pinned, "", <<>>)
        /\ ret' = ToString(st.count)
        /\ built' = <<>>
        /\ UNCHANGED <<config_vars, convo_messages>>

\* FileManager.unload_all; the call record holds force = not keep_pinned
unload_all(keep_pinned) ==
    LET st == unload_each(store_paths(_store),
                          [files |-> file_messages, pins |-> pinned_files,
                           store |-> _store, count |-> 0],
                          ~keep_pinned)
    IN  /\ file_messages' = st.files
        /\ pinned_files' = st.pins
        /\ _store' = st.store
        /\ call' = Call("unload_all", "", ~keep_pinned, "", <<>>)
        /\ ret' = ToString(st.count)
        /\ built' = <<>>
        /\ UNCHANGED <<config_vars, convo_messages>>

(***************************************************************************)
(* NvidiaProvider.stream and SessionManager.send                           *)
(*                                                                         *)
(* pc: "idle" (no send running), "build" (after the optional add_user),    *)
(* "attempt" (at the head of the retry loop), "streaming" (a completion is *)
(* being iterated), "sleep" (in time.sleep after a transient failure),     *)
(* "finalize" (after the try statement of send), "returned".               *)
(***************************************************************************)
\* the chunks of a completion: one without choices, one with content only,
\* one with reasoning and content
RawChunks ==
    { [choices |-> FALSE, reasoning_content |-> <<>>,    content |-> <<>>],
      [choices |-> TRUE,  reasoning_content |-> <<>>,    content |-> <<"a">>],
      [choices |-> TRUE,  reasoning_content |-> <<"r">>, content |-> <<"b">>] }

\* getattr(delta, name, None) or ""
or_empty(opt) == IF opt = <<>> THEN "" ELSE opt[1]

\* what _parse_stream yields for one raw chunk: <<>> or one StreamChunk
_parse_stream(raw) ==
    LET reasoning == or_empty(raw.reasoning_content)
        content   == or_empty(raw.content)
    IN  IF ~raw.choices THEN <<>>
        ELSE IF reasoning # "" \/ content # ""
        THEN <<[content |-> content, reasoning |-> reasoning]>>
        ELSE <<>>

RECURSIVE Pow2(_)
Pow2(n) == IF n <= 0 THEN 1 ELSE 2 * Pow2(n - 1)

Shown(kind, text) == [kind |-> kind, text |-> text]

\* a loop that runs once more than max_retries
in_range_inclusive == attempt <= max_retries

\* for attempt in range(self._max_retries)
in_range == attempt < max_retries

\* a send that records the user text whatever record_in_history says
send_begin_always_record(text, record) ==
    /\ pc = "idle"
    /\ sends < MaxSends
    /\ add_user(text)
    /\ pc' = "build"
    /\ user_message' = text
    /\ record_in_history' = record
    /\ sends' = sends + 1
    /\ UNCHANGED <<_store, max_retries, messages, full_response, attempt,
                   display,
                   result, outcome, creates, waits, transients,
                   attempt_content, chunks>>

\* a send that never records the user text
send_begin_never_record(text, record) ==
    /\ pc = "idle"
    /\ sends < MaxSends
    /\ UNCHANGED ctx_vars
    /\ pc' = "build"
    /\ user_message' = text
    /\ record_in_history' = record
    /\ sends' = sends + 1
    /\ UNCHANGED <<_store, max_retries, messages, full_response, attempt,
                   display,
                   result, outcome, creates, waits, transients,
                   attempt_content, chunks>>

\* send, up to the call of build_messages
send_begin(text, record) ==
    /\ pc = "idle"
    /\ sends < MaxSends
    /\ IF record THEN add_user(text) ELSE UNCHANGED ctx_vars
    /\ pc' = "build"
    /\ user_message' = text
    /\ record_in_history' = record
    /\ sends' = sends + 1
    /\ UNCHANGED <<_store, max_retries, messages, full_response, attempt,
                   display,
                   result, outcome, creates, waits, transients,
                   attempt_content, chunks>>

\* messages = build_messages(...); full_response = ""; the generator is made
send_build ==
    /\ pc = "build"
    /\ \E e \in {IF record_in_history THEN <<>> ELSE <<user_message>>} :
           /\ build_messages(e)
           /\ messages' = build_messages_list(e)
    /\ full_response' = ""
    /\ attempt' = 0
    /\ pc' = "attempt"
    /\ UNCHANGED <<_store, max_retries, user_message, record_in_history,
                   display,
                   result, outcome, creates, waits, transients,
                   attempt_content, chunks, sends>>

\* chat.completions.create returns a completion
stream_create ==
    /\ pc = "attempt"
    /\ in_range
    /\ creates' = creates + 1
    /\ attempt_content' = ""
    /\ chunks' = 0
    /\ pc' = "streaming"
    /\ UNCHANGED <<ctx_vars, _store, max_retries, user_message,
                   record_in_history,
                   messages, full_response, attempt, display, result, outcome,
                   waits, transients, sends>>

\* a loop body that shows the content of a fragment before its reasoning
stream_chunk_content_first(raw) ==
    /\ pc = "streaming"
    /\ chunks < MaxChunks
    /\ chunks' = chunks + 1
    /\ LET yielded == _parse_stream(raw)
       IN  IF yielded = <<>>
           THEN UNCHANGED <<display, full_response, attempt_content>>
           ELSE LET chunk == yielded[1]
                IN  /\ display' =
                           display
                           \o (IF chunk.content # ""
                               THEN <<Shown("stream", chunk.content)>> ELSE <<>>)
                           \o (IF chunk.reasoning # ""
                               THEN <<Shown("reasoning", chunk.reasoning)>> ELSE <<>>)
                    /\ full_response' = full_response \o chunk.content
                    /\ attempt_content' = attempt_content \o chunk.content
    /\ UNCHANGED <<ctx_vars, _store, max_retries, pc, user_message,
                   record_in_history,
                   messages, attempt, result, outcome, creates, waits,
                   transients, sends>>

\* the completion delivers a raw chunk; when _parse_stream yields it, the
\* loop body of send shows and accumulates it
stream_chunk(raw) ==
    /\ pc = "streaming"
    /\ chunks < MaxChunks
    /\ chunks' = chunks + 1
    /\ LET yielded == _parse_stream(raw)
       IN  IF yielded = <<>>
           THEN UNCHANGED <<display, full_response, attempt_content>>
           ELSE LET chunk == yielded[1]
                IN  /\ display' =
                           display
                           \o (IF chunk.reasoning # ""
                               THEN <<Shown("reasoning", chunk.reasoning)>> ELSE <<>>)
                           \o (IF chunk.content # ""
                               THEN <<Shown("stream", chunk.content)>> ELSE <<>>)
                    /\ full_response' = full_response \o chunk.content
                    /\ attempt_content' = attempt_content \o chunk.content
    /\ UNCHANGED <<ctx_vars, _store, max_retries, pc, user_message,
                   record_in_history,
                   messages, attempt, result, outcome, creates, waits,
                   transients, sends>>

\* the completion ends: the generator returns and the for loop of send ends
stream_end ==
    /\ pc = "streaming"
    /\ pc' = "finalize"
    /\ outcome' = "completed"
    /\ UNCHANGED <<ctx_vars, _store, max_retries, user_message,
                   record_in_history,
                   messages, full_response, attempt, display, result, creates,
                   waits, transients, attempt_content, chunks, sends>>

\* a provider that waits the base delay after every failure
stream_transient_constant_wait ==
    /\ \/ pc = "attempt" /\ in_range /\ creates' = creates + 1
                         /\ attempt_content' = ""
       \/ pc = "streaming" /\ UNCHANGED <<creates, attempt_content>>
    /\ transients' = transients + 1
    /\ waits' = Append(waits, RETRY_DELAY)
    /\ pc' = "sleep"
    /\ UNCHANGED <<ctx_vars, _store, max_retries, user_message,
                   record_in_history,
                   messages, full_response, attempt, display, result, outcome,
                   chunks, sends>>

\* APIConnectionError or RateLimitError, raised by create (pc = "attempt") or
\* while the completion is iterated: the wait is computed and slept
stream_transient ==
    /\ \/ pc = "attempt" /\ in_range /\ creates' = creates + 1
                         /\ attempt_content' = ""
       \/ pc = "streaming" /\ UNCHANGED <<creates, attempt_content>>
    /\ transients' = transients + 1
    /\ waits' = Append(waits, RETRY_DELAY * Pow2(attempt))
    /\ pc' = "sleep"
    /\ UNCHANGED <<ctx_vars, _store, max_retries, user_message,
                   record_in_history,
                   messages, full_response, attempt, display, result, outcome,
                   chunks, sends>>

\* time.sleep returns: the next iteration of the retry loop
stream_wake ==
    /\ pc = "sleep"
    /\ attempt' = attempt + 1
    /\ pc' = "attempt"
    /\ UNCHANGED <<ctx_vars, _store, max_retries, user_message,
                   record_in_history,
                   messages, full_response, display, result, outcome, creates,
                   waits, transients, attempt_content, chunks, sends>>

\* a provider that shows a non-transient error and retries after a wait
stream_fatal_retried ==
    /\ \/ pc = "attempt" /\ in_range /\ creates' = creates + 1
                         /\ attempt_content' = ""
       \/ pc = "streaming" /\ UNCHANGED <<creates, attempt_content>>
    /\ display' = Append(display, Shown("error", "API error"))
    /\ waits' = Append(waits, RETRY_DELAY * Pow2(attempt))
    /\ pc' = "sleep"
    /\ UNCHANGED <<ctx_vars, _store, max_retries, user_message,
                   record_in_history,
                   messages, full_response, attempt, result, outcome, transients,
                   chunks, sends>>

\* any other APIError, raised by create or while the completion is iterated:
\* RuntimeError("API error: ..."), which send shows
stream_fatal ==
    /\ \/ pc = "attempt" /\ in_range /\ creates' = creates + 1
                         /\ attempt_content' = ""
       \/ pc = "streaming" /\ UNCHANGED <<creates, attempt_content>>
    /\ display' = Append(display, Shown("error", "API error"))
    /\ outcome' = "failed"
    /\ pc' = "finalize"
    /\ UNCHANGED <<ctx_vars, _store, max_retries, user_message,
                   record_in_history,
                   messages, full_response, attempt, result, waits, transients,
                   chunks, sends>>

\* a retry loop that never gives up: nothing happens once it is over
stream_exhausted_never ==
    /\ pc = "attempt"
    /\ ~in_range
    /\ FALSE
    /\ UNCHANGED vars

\* the retry loop is over: RuntimeError("All N retries failed: ..."), which
\* send shows
stream_exhausted ==
    /\ pc = "attempt"
    /\ ~in_range
    /\ display' = Append(display, Shown("error", "All retries failed"))
    /\ outcome' = "failed"
    /\ pc' = "finalize"
    /\ UNCHANGED <<ctx_vars, _store, max_retries, user_message,
                   record_in_history,
                   messages, full_response, attempt, result, creates, waits,
                   transients, attempt_content, chunks, sends>>

\* an interrupt that throws the accumulated content away
keyboard_interrupt_discard ==
    /\ pc \in {"attempt", "streaming", "sleep"}
    /\ display' = Append(display, Shown("info", "\n[Stream interrupted by user]"))
    /\ outcome' = "cancelled"
    /\ pc' = "finalize"
    /\ full_response' = ""
    /\ UNCHANGED <<ctx_vars, _store, max_retries, user_message,
                   record_in_history,
                   messages, attempt, result, creates, waits,
                   transients, attempt_content, chunks, sends>>

\* an interrupt that is shown as an error
keyboard_interrupt_as_error ==
    /\ pc \in {"attempt", "streaming", "sleep"}
    /\ display' = Append(display, Shown("error", "\n[Stream interrupted by user]"))
    /\ outcome' = "cancelled"
    /\ pc' = "finalize"
    /\ UNCHANGED <<ctx_vars, _store, max_retries, user_message,
                   record_in_history,
                   messages, full_response, attempt, result, creates, waits,
                   transients, attempt_content, chunks, sends>>

\* KeyboardInterrupt inside the try statement of send
keyboard_interrupt ==
    /\ pc \in {"attempt", "streaming", "sleep"}
    /\ display' = Append(display, Shown("info", "\n[Stream interrupted by user]"))
    /\ outcome' = "cancelled"
    /\ pc' = "finalize"
    /\ UNCHANGED <<ctx_vars, _store, max_retries, user_message,
                   record_in_history,
                   messages, full_response, attempt, result, creates, waits,
                   transients, attempt_content, chunks, sends>>

\* a send that records the output of completed exchanges only
send_finalize_completed_only ==
    /\ pc = "finalize"
    /\ display' = Append(display, Shown("newline", ""))
    /\ IF full_response # "" /\ outcome = "completed"
       THEN add_assistant(full_response)
                             ELSE UNCHANGED ctx_vars
    /\ result' = IF full_response # "" THEN <<full_response>> ELSE <<>>
    /\ pc' = "returned"
    /\ UNCHANGED <<_store, max_retries, user_message, record_in_history,
                   messages,
                   full_response, attempt, outcome, creates, waits, transients,
                   attempt_content, chunks, sends>>

\* send, after the try statement
send_finalize ==
    /\ pc = "finalize"
    /\ display' = Append(display, Shown("newline", ""))
    /\ IF full_response # "" THEN add_assistant(full_response)
                             ELSE UNCHANGED ctx_vars
    /\ result' = IF full_response # "" THEN <<full_response>> ELSE <<>>
    /\ pc' = "returned"
    /\ UNCHANGED <<_store, max_retries, user_message, record_in_history,
                   messages,
                   full_response, attempt, outcome, creates, waits, transients,
                   attempt_content, chunks, sends>>

\* what is left of a send once its caller has the result
send_return ==
    /\ pc = "returned"
    /\ pc' = "idle"
    /\ user_message' = ""
    /\ record_in_history' = FALSE
    /\ messages' = <<>>
    /\ full_response' = ""
    /\ attempt' = 0
    /\ display' = <<>>
    /\ result' = <<>>
    /\ outcome' = "none"
    /\ creates' = 0
    /\ waits' = <<>>
    /\ transients' = 0
    /\ attempt_content' = ""
    /\ chunks' = 0
    /\ UNCHANGED <<ctx_vars, _store, max_retries, sends>>

(***************************************************************************)
(* The state machine                                                       *)
(***************************************************************************)
\* no send running
SessionInit ==
    /\ pc = "idle"
    /\ user_message = ""
    /\ record_in_history = FALSE
    /\ messages = <<>>
    /\ full_response = ""
    /\ attempt = 0
    /\ display = <<>>
    /\ result = <<>>
    /\ outcome = "none"
    /\ creates = 0
    /\ waits = <<>>
    /\ transients = 0
    /\ attempt_content = ""
    /\ chunks = 0
    /\ sends = 0

Init ==
    /\ _store = <<>>
    /\ max_retries = MAX_RETRIES
    /\ SessionInit
    /\ system_prompt \in SystemPrompts
    /\ system = Message("system", system_prompt)
    /\ max_total \in MaxTotalChoices
    /\ max_file_tokens \in MaxFileChoices
    /\ max_convo \in MaxConvoChoices
    /\ file_messages = <<>>
    /\ convo_messages = <<>>
    /\ pinned_files = {}
    /\ call = Call("__init__", "", FALSE, "", <<>>)
    /\ ret = "None"
    /\ built = <<>>

\* the context manager on its own: no send is running, no file is read
no_send == UNCHANGED <<_store, max_retries, send_vars>>

UpsertFile    == no_send /\ \E p \in LoadedPaths, c \in FileTexts : upsert_file(p, c)
RemoveFile    == no_send /\ \E p \in Paths, f \in BOOLEAN : remove_file(p, f)
PinFile       == no_send /\ \E p \in Paths : pin_file(p)
UnpinFile     == no_send /\ \E p \in Paths : unpin_file(p)
AddUser       == no_send /\ \E c \in UserTexts : add_user(c)
AddAssistant  == no_send /\ \E c \in AssistantTexts : add_assistant(c)
ResetConvo    == no_send /\ reset_convo
BuildMessages == no_send /\ \E e \in EphemeralArgs : build_messages(e)

Next ==
    \/ UpsertFile
    \/ RemoveFile
    \/ PinFile
    \/ UnpinFile
    \/ AddUser
    \/ AddAssistant
    \/ ResetConvo
    \/ BuildMessages

Spec == Init /\ [][Next]_vars

(***************************************************************************)
(* Token estimates of texts of every length                                *)
(***************************************************************************)
EstimateTexts == {Rep(c, n) : c \in {"x", "y"}, n \in 0..MaxTextLen}

InitEstimate ==
    /\ system_prompt \in SystemPrompts
    /\ system = Message("system", system_prompt)
    /\ max_total = 1000
    /\ max_file_tokens = 60
    /\ max_convo = 2
    /\ file_messages = <<>>
    /\ convo_messages = <<>>
    /\ pinned_files = {}
    /\ call = Call("__init__", "", FALSE, "", <<>>)
    /\ ret = "None"
    /\ built = <<>>
    /\ _store = <<>>
    /\ max_retries = MAX_RETRIES
    /\ SessionInit

AddText == no_send /\ \E t \in EstimateTexts : add_user(t)

NextEstimate == AddText

SpecEstimate == InitEstimate /\ [][NextEstimate]_vars

(***************************************************************************)
(* Loading and unloading files                                             *)
(***************************************************************************)
InitFiles ==
    /\ system_prompt \in SystemPrompts
    /\ system = Message("system", system_prompt)
    /\ max_total = 1000
    /\ max_file_tokens = 60
    /\ max_convo = 2
    /\ file_messages = <<>>
    /\ convo_messages = <<>>
    /\ pinned_files = {}
    /\ call = Call("__init__", "", FALSE, "", <<>>)
    /\ ret = "None"
    /\ built = <<>>
    /\ _store = <<>>
    /\ max_retries = MAX_RETRIES
    /\ SessionInit

no_session == UNCHANGED <<max_retries, send_vars>>

Load      == no_session /\ \E p \in Paths, c \in FileTexts : load(p, c)
Unload    == no_session /\ \E p \in Paths, f \in BOOLEAN : unload(p, f)
UnloadAll == no_session /\ \E k \in BOOLEAN : unload_all(k)

NextFiles ==
    \/ Load
    \/ Unload
    \/ UnloadAll
    \/ PinFile
    \/ UnpinFile

SpecFiles == InitFiles /\ [][NextFiles]_vars

(***************************************************************************)
(* The streaming session                                                   *)
(***************************************************************************)
InitSend ==
    /\ system_prompt \in SystemPrompts
    /\ system = Message("system", system_prompt)
    /\ max_total \in SendMaxTotalChoices
    /\ max_file_tokens = 60
    /\ max_convo \in SendMaxConvoChoices
    /\ file_messages = <<>>
    /\ convo_messages = <<>>
    /\ pinned_files = {}
    /\ call = Call("__init__", "", FALSE, "", <<>>)
    /\ ret = "None"
    /\ built = <<>>
    /\ _store = <<>>
    /\ max_retries \in MaxRetriesChoices
    /\ SessionInit

SendBegin         == \E t \in SendTexts, r \in BOOLEAN : send_begin(t, r)
SendBuild         == send_build
StreamCreate      == stream_create
StreamChunk       == \E raw \in RawChunks : stream_chunk(raw)
StreamEnd         == stream_end
StreamTransient   == stream_transient
StreamWake        == stream_wake
StreamFatal       == stream_fatal
StreamExhausted   == stream_exhausted
KeyboardInterrupt == keyboard_interrupt
SendFinalize      == send_finalize
SendReturn        == send_return

NextSend ==
    \/ SendBegin
    \/ SendBuild
    \/ StreamCreate
    \/ StreamChunk
    \/ StreamEnd
    \/ StreamTransient
    \/ StreamWake
    \/ StreamFatal
    \/ StreamExhausted
    \/ KeyboardInterrupt
    \/ SendFinalize
    \/ SendReturn

SpecSend == InitSend /\ [][NextSend]_vars

\* a running send goes on: the statements of send and stream are executed,
\* an open provider call delivers, ends or fails, and time.sleep returns;
\* nothing obliges the user to start a send or to interrupt one
FairSpecSend ==
    /\ SpecSend
    /\ WF_vars(SendBuild)
    /\ WF_vars(StreamCreate \/ StreamChunk \/ StreamEnd
                   \/ StreamTransient \/ StreamFatal)
    /\ WF_vars(StreamWake)
    /\ WF_vars(StreamExhausted)
    /\ WF_vars(SendFinalize)

TypeOK ==
    /\ ret \in {"None", "True", "False"}
    /\ pinned_files \subseteq LoadedPaths
(***************************************************************************)
(* Claims                                                                  *)
(***************************************************************************)
Range(f) == {f[i] : i \in DOMAIN f}

\* C1: whenever the system message alone fits max_total_tokens, the token
\* estimates of the messages returned by build_messages() sum to at most
\* max_total_tokens.
C1_BudgetBound ==
    (call.op = "build_messages" /\ token_estimate(system) <= max_total)
        => SumTokens(built) <= max_total

\* C2: the first message returned by build_messages() is the system message
\* with exactly the prompt given to the constructor.
C2_SystemVerbatim ==
    call.op = "build_messages"
        => /\ Len(built) >= 1
           /\ built[1] = [role |-> "system", content |-> system_prompt]

\* a build whose system message alone is over budget and whose emergency
\* stage has shrunk a document
C2_Witness ==
    /\ call.op = "build_messages"
    /\ token_estimate(system) > max_total
    /\ file_messages # <<>>
    /\ Len(built) >= 2
    /\ built[1].content = system_prompt
    /\ built[2].content # file_messages[1].content

\* (ids is bound by a quantifier so that it is evaluated once per step)
C3_Step ==
    \A ids \in {file_paths_of(file_messages')} :
        /\ Len(ids) = Len(file_messages')
        /\ \A i, j \in 1..Len(ids) : ids[i] = ids[j] => i = j
        /\ \A i \in 1..Len(ids) :
             IF call'.op = "upsert_file" /\ call'.path = ids[i]
             THEN file_messages'[i].content =
                      FILE_TAG \o ids[i] \o "\n" \o _apply_file_budget(call'.content)
             ELSE \E k \in 1..Len(file_messages) : file_messages[k] = file_messages'[i]

\* C3: after every call each stored file message is listed by file_paths()
\* under one identifier, no two under the same one, and an entry is either
\* the truncated content of the upsert_file just made for its identifier or
\* an entry that was stored before the call (so it carries the content of
\* the latest upsert_file for its identifier).
C3_PerDocumentUniqueness == [][C3_Step]_vars

\* a long text re-upserted over the first of two documents
C3_Witness ==
    /\ call.op = "upsert_file"
    /\ call.slot = 1
    /\ call.content = LongText
    /\ Len(file_messages) = 2
    /\ file_paths[2] = call.path
    /\ file_paths[1] # call.path

\* C4 as claimed: upsert_file of an identifier that already has an entry
\* leaves the order of identifiers in the document layer as it was.
C4_InPlace ==
    [][(call'.op = "upsert_file" /\ call'.path \in Range(file_paths))
          => file_paths_of(file_messages') = file_paths]_vars

\* C4 as amended: upsert_file removes the identifier's entry and appends the
\* new one, so the identifier becomes the last entry and the other
\* identifiers keep their relative order.
C4_MovedToEnd ==
    [][call'.op = "upsert_file"
          => file_paths_of(file_messages') =
                 Append(SelectSeq(file_paths, LAMBDA q : q # call'.path),
                        call'.path)]_vars

\* the document of the first of two slots has been upserted again and is
\* now the last
C4_Witness ==
    /\ call.op = "upsert_file"
    /\ call.slot = 1
    /\ Len(file_paths) = 2
    /\ file_paths[2] = call.path

\* C5: every identifier in the pin set has a live entry in the document layer.
C5_PinSetInv == \A p \in pinned_files : p \in Range(file_paths)

\* a pinned document has been upserted again and is still pinned
C5_Witness ==
    /\ call.op = "upsert_file"
    /\ call.pinned
    /\ call.path \in pinned_files
    /\ call.path \in Range(file_paths)

\* C6: pin_file on an identifier without a live entry returns false and
\* changes nothing; on one with a live entry it returns true and adds the
\* identifier to the pin set.
C6_PinPrecondition ==
    [][call'.op = "pin_file" =>
          LET id == abspath(call'.path)
          IN  IF id \in Range(file_paths)
              THEN /\ ret' = "True"
                   /\ pinned_files' = pinned_files \cup {id}
              ELSE /\ ret' = "False"
                   /\ UNCHANGED <<pinned_files, file_messages,
                                  convo_messages>>]_vars

\* pin_file has refused an unloaded path while another document is loaded
\* and pinned
C6_Witness ==
    /\ call.op = "pin_file"
    /\ call.slot = 0
    /\ ret = "False"
    /\ file_messages # <<>>
    /\ pinned_files # {}

\* C7: remove_file without force on a pinned identifier returns false and
\* leaves the document layer and the pin set unchanged.
C7_EvictionProtection ==
    [][(/\ call'.op = "remove_file"
        /\ ~call'.force
        /\ abspath(call'.path) \in pinned_files)
          => /\ ret' = "False"
             /\ UNCHANGED <<file_messages, pinned_files>>]_vars

\* an unforced removal, by its relative spelling, of a pinned document
C7_Witness ==
    /\ call.op = "remove_file"
    /\ ~call.force
    /\ call.pinned
    /\ call.path = "b.py"
    /\ ret = "False"
    /\ abspath(call.path) \in pinned_files
    /\ abspath(call.path) \in Range(file_paths)

\* C8: remove_file with force returns true, leaves the identifier without
\* entry and unpinned, and leaves the entries and pins of the other
\* identifiers unchanged.
C8_ForcedRemove ==
    [][(call'.op = "remove_file" /\ call'.force) =>
          LET id == abspath(call'.path)
          IN  /\ ret' = "True"
              /\ id \notin Range(file_paths_of(file_messages'))
              /\ id \notin pinned_files'
              /\ pinned_files' = pinned_files \ {id}
              /\ file_messages' =
                     SelectSeq(file_messages,
                               LAMBDA m : file_paths_of(<<m>>) # <<id>>)]_vars

\* a forced removal of a pinned document has left another pinned document
C8_Witness ==
    /\ call.op = "remove_file"
    /\ call.force
    /\ call.pinned
    /\ call.slot # 0
    /\ ret = "True"
    /\ pinned_files # {}

\* C9: an unforced remove_file of an identifier without entry returns true
\* and changes nothing; a second unforced remove_file of the same path
\* right after a successful one returns true and changes nothing.
C9_RemoveIdempotent ==
    [][/\ (/\ call'.op = "remove_file"
           /\ ~call'.force
           /\ abspath(call'.path) \notin Range(file_paths))
             => /\ ret' = "True"
                /\ UNCHANGED <<file_messages, pinned_files, convo_messages>>
       /\ (/\ call.op = "remove_file" /\ ~call.force /\ ret = "True"
           /\ call'.op = "remove_file" /\ ~call'.force
           /\ call'.path = call.path)
             => /\ ret' = "True"
                /\ UNCHANGED <<file_messages, pinned_files,
                               convo_messages>>]_vars

\* an unforced removal of a path without entry has succeeded while another
\* document is loaded and pinned
C9_Witness ==
    /\ call.op = "remove_file"
    /\ ~call.force
    /\ call.slot = 0
    /\ ~call.pinned
    /\ ret = "True"
    /\ file_messages # <<>>
    /\ pinned_files # {}

\* C10: the conversation layer is never longer than max_convo_messages.
C10_ConvoBound == Len(convo_messages) <= max_convo
\* sub in s (Python's in on strings)
contains(s, sub) ==
    \E i \in 1..(Len(s) - Len(sub) + 1) : SubSeq(s, i, i + Len(sub) - 1) = sub

\* the role a call appends with
role_of(op) == IF op = "add_user" THEN "user" ELSE "assistant"

\* C11: an append that takes the conversation beyond max_convo_messages
\* leaves exactly the most recent max_convo_messages messages, in order; an
\* append within the maximum keeps them all.
C11_ConvoFifo ==
    [][call'.op \in {"add_user", "add_assistant"} =>
          \A all \in {Append(convo_messages,
                             Message(role_of(call'.op), call'.content))} :
              IF Len(all) > max_convo
              THEN /\ Len(convo_messages') = max_convo
                   /\ convo_messages' =
                          SubSeq(all, Len(all) - max_convo + 1, Len(all))
              ELSE convo_messages' = all]_vars

\* C12: truncating the truncated body that upsert_file stores, with the same
\* budget, changes nothing.
C12_TruncationIdempotent ==
    call.op = "upsert_file" =>
        _apply_file_budget(_apply_file_budget(call.content))
            = _apply_file_budget(call.content)

\* C13: a stored document that is not the text given to upsert_file, and a
\* built document that is not the stored one, contain the truncation marker.
C13_TruncationMarked ==
    /\ call.op = "upsert_file" =>
         \A i \in 1..Len(file_messages) :
             (/\ startswith(file_messages[i].content, FILE_TAG \o call.path \o "\n")
              /\ file_messages[i].content # FILE_TAG \o call.path \o "\n" \o call.content)
                 => contains(file_messages[i].content, TRUNCATION_MARKER)
    /\ call.op = "build_messages" =>
         \A i \in 1..Len(file_messages) :
             built[1 + i].content # file_messages[i].content
                 => contains(built[1 + i].content, TRUNCATION_MARKER)

\* C14: the built list holds one message per stored document, in order,
\* each beginning with the header of its document.
C14_DocumentsKept ==
    call.op = "build_messages" =>
        /\ Len(built) >= 1 + Len(file_messages)
        /\ \A i \in 1..Len(file_messages) :
               startswith(built[1 + i].content, FirstLine(file_messages[i].content))

\* C15: when a built document differs from the stored one, the built list
\* holds no conversation message: only the system message, the documents
\* and the ephemeral message.
C15_LayerPrecedence ==
    call.op = "build_messages" =>
        ((\E i \in 1..Len(file_messages) : built[1 + i] # to_dict(file_messages[i]))
            => Len(built) = 1 + Len(file_messages)
                              + Len(ephemeral_list(call.ephemeral)))

\* a build with an ephemeral message that has drained a stored conversation
\* of two turns and shrunk the documents
C15_Witness ==
    /\ call.op = "build_messages"
    /\ Len(convo_messages) = 2
    /\ file_messages # <<>>
    /\ ephemeral_list(call.ephemeral) # <<>>
    /\ built[2] # to_dict(file_messages[1])
    /\ Len(built) = Len(file_messages) + 2

\* C16: reset_convo empties the conversation and leaves the documents, the
\* pins, the system message and the budgets as they were.
C16_ResetFrame ==
    [][call'.op = "reset_convo" =>
          /\ convo_messages' = <<>>
          /\ UNCHANGED <<file_messages, pinned_files, config_vars>>]_vars

\* a reset that has left two documents, one of them pinned
C16_Witness ==
    /\ call.op = "reset_convo"
    /\ convo_messages = <<>>
    /\ Len(file_messages) = 2
    /\ pinned_files # {}

\* a is what is left of b after dropping some of its oldest elements
is_suffix(a, b) ==
    /\ Len(a) <= Len(b)
    /\ a = SubSeq(b, Len(b) - Len(a) + 1, Len(b))

has_error == \E i \in 1..Len(display) : display[i].kind = "error"

\* C17: while a send with record_in_history = False runs, whatever its
\* outcome, the conversation layer changes only once, after the stream, and
\* only by gaining one assistant message that holds the accumulated output
\* (the oldest messages may be trimmed away); the user text is never added.
C17_Step ==
    (pc' # "idle" /\ ~record_in_history') =>
        \/ convo_messages' = convo_messages
        \/ /\ pc = "finalize"
           /\ pc' = "returned"
           /\ full_response # ""
           /\ is_suffix(convo_messages',
                        Append(convo_messages, Message("assistant", full_response)))

C17_NonPersistedSend == [][C17_Step]_vars

\* two consecutive non-persisted sends, the second one cancelled after some
\* output: the conversation holds two assistant messages and no user text
C17_Witness ==
    /\ pc = "returned"
    /\ sends = 2
    /\ ~record_in_history
    /\ outcome = "cancelled"
    /\ result # <<>>
    /\ Len(convo_messages) = 2
    /\ \A i \in 1..2 : convo_messages[i].role = "assistant"
    /\ convo_messages[2].content = result[1]

latest_is_user_turn ==
    /\ convo_messages # <<>>
    /\ convo_messages[Len(convo_messages)] = Message("user", user_message)

\* C18: in a send with record_in_history = True the user text is the latest
\* conversation message before the message list is built and before the
\* provider is first called, it stays the latest one until the stream is over,
\* and it still is when the send has returned without output.
C18_PersistedSend ==
    (pc # "idle" /\ record_in_history) =>
        /\ pc = "build" => (messages = <<>> /\ creates = 0)
        /\ pc \in {"build", "attempt", "streaming", "sleep", "finalize"}
               => latest_is_user_turn
        /\ (pc = "returned" /\ result = <<>>) => latest_is_user_turn

\* a persisted send has returned nothing after a failed provider call
C18_Witness ==
    /\ pc = "returned"
    /\ record_in_history
    /\ outcome = "failed"
    /\ creates >= 1
    /\ result = <<>>
    /\ latest_is_user_turn

\* C19: when a send has completed after k transient failures, exactly k waits
\* occurred, no error was shown, and the text returned (and recorded as the
\* assistant turn) is the content of the successful attempt alone.
C19_RetryThenSuccess ==
    (pc = "returned" /\ outcome = "completed") =>
        /\ transients < max_retries
        /\ Len(waits) = transients
        /\ ~has_error
        /\ result = (IF attempt_content = "" THEN <<>> ELSE <<attempt_content>>)
        /\ (result # <<>>) =>
               convo_messages[Len(convo_messages)]
                   = Message("assistant", attempt_content)

\* C20: the provider call is attempted at most max_retries times in one send;
\* once max_retries attempts have failed transiently the send is over unless
\* it is still in its last wait, and if it was not interrupted it has shown
\* an error and ended as failed.
C20_BoundedRetry ==
    /\ creates <= max_retries
    /\ transients <= max_retries
    /\ (pc # "idle" /\ transients = max_retries) =>
           /\ creates = max_retries
           /\ pc \in {"build", "sleep", "attempt", "finalize", "returned"}
           /\ (pc \in {"finalize", "returned"} /\ outcome # "cancelled")
                  => (outcome = "failed" /\ has_error)

\* both attempts of a send with max_retries = 2 failed transiently and the
\* send has returned after showing an error
C20_Witness ==
    /\ pc = "returned"
    /\ max_retries = 2
    /\ transients = 2
    /\ creates = 2
    /\ Len(waits) = 2
    /\ outcome = "failed"
    /\ has_error

fatal_shown ==
    \E i \in 1..Len(display) : display[i] = Shown("error", "API error")

exhausted_shown ==
    \E i \in 1..Len(display) : display[i] = Shown("error", "All retries failed")

errors_in(shown) ==
    Cardinality({i \in 1..Len(shown) : shown[i].kind = "error"})

\* C21: once an attempt has raised a non-transient provider error the error
\* is shown, the send is past its stream and ends as failed; the step that
\* shows it starts no wait, and from then on the send makes no provider call
\* and no wait. Every wait of the send belongs to an earlier transient failure.
C21_Step ==
    \A shown \in {fatal_shown'} :
        shown =>
            /\ pc' \in {"finalize", "returned"}
            /\ outcome' = "failed"
            /\ waits' = waits
            /\ transients' = transients
            /\ Len(waits') = transients'
            /\ IF fatal_shown THEN creates' = creates
                              ELSE creates' \in {creates, creates + 1}

C21_FatalNotRetried == [][C21_Step]_vars

\* the second attempt of a send failed with a non-transient error after the
\* first one had failed transiently: one wait, two calls, an error shown
C21_Witness ==
    /\ pc = "returned"
    /\ fatal_shown
    /\ creates = 2
    /\ transients = 1
    /\ Len(waits) = 1
    /\ errors_in(display) = 1

\* C22: an interrupt that arrives while the stream is consumed ends the
\* consumption: the accumulated content is kept, the only thing shown is the
\* cancellation notice, no provider call and no wait follows; the next step
\* is the finalize step, which shows no error, records the partial text as
\* the assistant turn and returns it (None when nothing was accumulated).
C22_Step ==
    /\ (pc = "streaming" /\ outcome' = "cancelled") =>
           /\ pc' = "finalize"
           /\ full_response' = full_response
           /\ display' = Append(display,
                                Shown("info", "\n[Stream interrupted by user]"))
           /\ creates' = creates
           /\ waits' = waits
    /\ (pc = "finalize" /\ outcome = "cancelled") =>
           /\ pc' = "returned"
           /\ outcome' = "cancelled"
           /\ creates' = creates
           /\ waits' = waits
           /\ full_response' = full_response
           /\ display' = Append(display, Shown("newline", ""))
           /\ errors_in(display') = 0
           /\ result' = (IF full_response = "" THEN <<>> ELSE <<full_response>>)
           /\ full_response # "" =>
                  /\ convo_messages' # <<>>
                  /\ is_suffix(convo_messages',
                               Append(convo_messages,
                                      Message("assistant", full_response)))

C22_Cancellation == [][C22_Step]_vars

\* a send interrupted while streaming, after the fragments "a" and "r"+"b":
\* it returned "ab" and recorded it
C22_Witness ==
    /\ pc = "returned"
    /\ outcome = "cancelled"
    /\ creates = 1
    /\ chunks = 2
    /\ result = <<"ab">>
    /\ display = << Shown("stream", "a"), Shown("reasoning", "r"),
                    Shown("stream", "b"),
                    Shown("info", "\n[Stream interrupted by user]"),
                    Shown("newline", "") >>
    /\ convo_messages[Len(convo_messages)] = Message("assistant", "ab")

\* C23: whatever the outcome, the step after the stream appends exactly one
\* assistant message holding the accumulated content and returns that text
\* when the content is not empty, and appends nothing and returns None when
\* it is empty; between the start of a send and that step the conversation
\* does not change.
C23_Step ==
    /\ pc = "finalize" =>
           /\ pc' = "returned"
           /\ IF full_response # ""
              THEN /\ result' = <<full_response>>
                   /\ convo_messages' # <<>>
                   /\ is_suffix(convo_messages',
                                Append(convo_messages,
                                       Message("assistant", full_response)))
              ELSE /\ result' = <<>>
                   /\ convo_messages' = convo_messages
    /\ pc \notin {"idle", "finalize"} => convo_messages' = convo_messages

C23_Finalize == [][C23_Step]_vars

\* a send whose only attempt failed transiently after the fragment "a":
\* retries exhausted, "a" returned and recorded
C23_Witness ==
    /\ pc = "returned"
    /\ exhausted_shown
    /\ max_retries = 1
    /\ result = <<"a">>
    /\ convo_messages[Len(convo_messages)] = Message("assistant", "a")

\* what the display is to receive for one raw chunk: nothing for a chunk
\* without choices, else its reasoning (if any) and then its content (if any)
forwarded(raw) ==
    IF ~raw.choices THEN <<>>
    ELSE (IF raw.reasoning_content = <<>> THEN <<>>
          ELSE <<Shown("reasoning", raw.reasoning_content[1])>>)
         \o (IF raw.content = <<>> THEN <<>>
             ELSE <<Shown("stream", raw.content[1])>>)

RECURSIVE content_shown(_)
content_shown(shown) ==
    IF shown = <<>> THEN ""
    ELSE (IF shown[1].kind = "stream" THEN shown[1].text ELSE "")
         \o content_shown(Tail(shown))

\* C24: every chunk the provider delivers is handled before the next one is
\* pulled: the display gains, at its end, the reasoning and then the content
\* of that chunk and nothing else, and the accumulator gains its content; the
\* accumulator always is the concatenation of the content shown so far.
C24_Step ==
    /\ chunks' = chunks + 1 =>
           \E raw \in RawChunks :
               /\ display' = display \o forwarded(raw)
               /\ full_response' = full_response \o or_empty(raw.content)
    /\ full_response' = content_shown(display')

C25_ErrorSurfacing ==
    /\ errors_in(display) <= 1
    /\ pc \in {"idle", "build", "attempt", "streaming", "sleep"}
           => errors_in(display) = 0
    /\ pc \in {"finalize", "returned"} =>
           /\ outcome \in {"completed", "cancelled", "failed"}
           /\ outcome = "failed" <=> errors_in(display) = 1
           /\ outcome = "failed" <=> (fatal_shown \/ exhausted_shown)
           /\ exhausted_shown => (creates = max_retries /\ transients = max_retries)
    /\ pc = "returned" =>
           result = (IF full_response = "" THEN <<>> ELSE <<full_response>>)

\* a send that returned "a" after a non-transient error in mid-stream
C25_Witness ==
    /\ pc = "returned"
    /\ outcome = "failed"
    /\ fatal_shown
    /\ errors_in(display) = 1
    /\ transients = 0
    /\ result = <<"a">>

\* max(1, character_count div 4), summed over a list of messages
RECURSIVE chars_div_4(_, _)
chars_div_4(msgs, i) ==
    IF i > Len(msgs) THEN 0
    ELSE (IF Len(msgs[i].content) < 8 THEN 1 ELSE Len(msgs[i].content) \div 4)
         + chars_div_4(msgs, i + 1)

\* C26: estimated_total_tokens() is the estimate of the system message plus
\* the estimates of the stored document messages plus the estimates of the
\* stored conversation messages; an ephemeral message given to an earlier
\* build_messages is not part of it, and get_stats()['total_tokens'] is the
\* same number.
C26_EstimatedTotal ==
    /\ estimated_total_tokens
           = chars_div_4(<<system>>, 1) + chars_div_4(file_messages, 1)
             + chars_div_4(convo_messages, 1)
    /\ get_stats.total_tokens = estimated_total_tokens

\* the latest call was a build with an ephemeral text, over a context that
\* holds a document and a conversation turn
C26_Witness ==
    /\ call.op = "build_messages"
    /\ call.ephemeral # <<>>
    /\ call.ephemeral[1] # ""
    /\ file_messages # <<>>
    /\ convo_messages # <<>>
    /\ built # <<>>
    /\ built[Len(built)].content = call.ephemeral[1]
    /\ estimated_total_tokens > token_estimate(system)

\* C27: the estimate of a message is max(1, character_count div 4): at
\* least 1 for every text, the empty one included, the quotient by 4 from 4
\* characters on, and never smaller for a text that is not shorter (so equal
\* for texts of equal length).
C27_TokenEstimate ==
    \A i \in 1..Len(convo_messages) :
        LET n == Len(convo_messages[i].content)
            e == token_estimate(convo_messages[i])
        IN  /\ e >= 1
            /\ n < 4 => e = 1
            /\ n >= 4 => (4 * e <= n /\ n < 4 * (e + 1))
            /\ \A j \in 1..Len(convo_messages) :
                   n <= Len(convo_messages[j].content)
                       => e <= token_estimate(convo_messages[j])

\* the empty text and a text of 8 characters or more are both stored
C27_Witness ==
    /\ Len(convo_messages) = 2
    /\ convo_messages[1].content = ""
    /\ Len(convo_messages[2].content) >= 8
    /\ token_estimate(convo_messages[1]) = 1
    /\ token_estimate(convo_messages[2]) = 2

\* C28: the body upsert_file stores for a text is at most 4 * max_file_tokens
\* characters long and never longer than the text.
C28_PerDocumentBudget ==
    call.op = "upsert_file" =>
        \A header \in {FILE_TAG \o call.path \o "\n"} :
            \A stored \in {file_messages[Len(file_messages)].content} :
                /\ startswith(stored, header)
                /\ Len(stored) - Len(header) <= 4 * max_file_tokens
                /\ Len(stored) - Len(header) <= Len(call.content)

\* C29: upsert_file leaves the pin set and the conversation layer as they
\* were (a pinned document that is upserted again stays pinned) and leaves
\* the entries of all other documents unchanged and in their order.
C29_Step ==
    call'.op = "upsert_file" =>
        /\ pinned_files' = pinned_files
        /\ convo_messages' = convo_messages
        /\ \A header \in {FILE_TAG \o call'.path \o "\n"} :
               SelectSeq(file_messages', LAMBDA m : ~startswith(m.content, header))
                   = SelectSeq(file_messages, LAMBDA m : ~startswith(m.content, header))

C29_UpsertFrame == [][C29_Step]_vars

\* a pinned document has been upserted again next to another pinned
\* document, with a conversation turn stored
C29_Witness ==
    /\ call.op = "upsert_file"
    /\ call.slot > 0
    /\ call.pinned
    /\ call.path \in pinned_files
    /\ Cardinality(pinned_files) = 2
    /\ Len(file_messages) = 2
    /\ convo_messages # <<>>

loaded_paths == {_store[i].path : i \in 1..Len(_store)}

\* C30: unload_all(keep_pinned=True) removes every loaded file that is not
\* pinned from the file store and from the context, keeps every pinned one in
\* both and pinned, and returns the number of files removed; with
\* keep_pinned=False every loaded file is removed and the pin set is empty.
C30_Step ==
    call'.op = "unload_all" =>
        \A after \in {Range(store_paths(_store'))} :
        \A docs \in {Range(file_paths_of(file_messages'))} :
            IF ~call'.force
            THEN /\ \A p \in loaded_paths \cap pinned_files :
                        p \in after /\ p \in docs /\ p \in pinned_files'
                 /\ \A p \in loaded_paths \ pinned_files :
                        p \notin after /\ p \notin docs
                 /\ pinned_files' = pinned_files
                 /\ ret' = ToString(Cardinality(loaded_paths \ pinned_files))
            ELSE /\ after = {}
                 /\ docs \cap loaded_paths = {}
                 /\ pinned_files' = {}
                 /\ ret' = ToString(Cardinality(loaded_paths))

C30_UnloadAll == [][C30_Step]_vars

\* unload_all(keep_pinned=True) has removed one of two loaded files and kept
\* the pinned one
C30_Witness ==
    /\ call.op = "unload_all"
    /\ ~call.force
    /\ ret = "1"
    /\ Len(_store) = 1
    /\ pinned_files = {_store[1].path}
    /\ Range(file_paths) = pinned_files

\* the ephemeral message a build was called with, as a list of dicts
ephemeral_given ==
    IF call.ephemeral # <<>> /\ call.ephemeral[1] # ""
    THEN <<[role |-> "user", content |-> call.ephemeral[1]]>>
    ELSE <<>>

\* the conversation messages of the built list
built_convo ==
    SubSeq(built, 2 + Len(file_messages), Len(built) - Len(ephemeral_given))

suffix(seq, j) == SubSeq(seq, Len(seq) - j + 1, Len(seq))

\* system + stored documents + the last j stored turns + ephemeral fit
fits(j) ==
    chars_div_4(<<system>>, 1) + chars_div_4(file_messages, 1)
        + chars_div_4(suffix(convo_messages, j), 1)
        + chars_div_4(ephemeral_given, 1) <= max_total

\* C31: the conversation messages of a built list are the longest suffix of
\* the stored conversation that fits the budget together with the system
\* message, the stored documents and the ephemeral message (none if no
\* suffix fits, all of them if the full list fits).
C31_EvictionMinimal ==
    call.op = "build_messages" =>
        \A kept \in {built_convo} :
            /\ Len(kept) <= Len(convo_messages)
            /\ kept = suffix(convo_messages, Len(kept))
            /\ Len(kept) > 0 => fits(Len(kept))
            /\ \A j \in (Len(kept) + 1)..Len(convo_messages) : ~fits(j)

\* a build kept two of three stored turns
C31_Witness ==
    /\ call.op = "build_messages"
    /\ Len(convo_messages) = 3
    /\ Len(built_convo) = 2
    /\ fits(2)
    /\ ~fits(3)

\* C32: a built list is the system message, then one message per stored
\* document in the order of the document layer (each a prefix of its stored
\* entry), then the retained conversation messages in their order, then, iff
\* an ephemeral text was given and is not empty, one user message with that
\* text as the last element.
C32_AssemblyOrder ==
    call.op = "build_messages" =>
        /\ built[1] = [role |-> "system", content |-> system_prompt]
        /\ Len(built) >= 1 + Len(file_messages) + Len(ephemeral_given)
        /\ \A i \in 1..Len(file_messages) :
               /\ built[1 + i].role = file_messages[i].role
               /\ startswith(file_messages[i].content, built[1 + i].content)
        /\ built_convo = suffix(convo_messages, Len(built_convo))
        /\ suffix(built, Len(ephemeral_given)) = ephemeral_given

\* a build with an ephemeral text over two documents and a retained turn
C32_Witness ==
    /\ call.op = "build_messages"
    /\ Len(file_messages) = 2
    /\ Len(built_convo) >= 1
    /\ ephemeral_given # <<>>
    /\ Len(built) = 3 + Len(built_convo) + 1
    /\ built[Len(built)].content = call.ephemeral[1]

\* C33: upsert_file stores a text within the budget unchanged; for a text
\* over the budget it stores the first half-budget characters, the marker
\* and a suffix of the text that is strictly shorter than the text.
C33_HeadAndTail ==
    call.op = "upsert_file" =>
        \A header \in {FILE_TAG \o call.path \o "\n"} :
        \A stored \in {file_messages[Len(file_messages)].content} :
        \A text \in {call.content} :
            IF Len(text) <= 4 * max_file_tokens
            THEN stored = header \o text
            ELSE \E k \in 0..(Len(text) - 1) :
                     stored = header
                              \o SubSeq(text, 1, 2 * max_file_tokens)
                              \o "\n\n/* ...TRUNCATED... (tail follows) */\n\n"
                              \o SubSeq(text, Len(text) - k + 1, Len(text))

\* C34: when a build is over budget even without any conversation message,
\* every document message of the list has at most 2 * max_file_tokens
\* characters and an estimate no greater than its stored entry's, and the
\* stored entries are the ones from before the call.
C34_Step ==
    (/\ call'.op = "build_messages"
     /\ chars_div_4(<<system>>, 1) + chars_div_4(file_messages, 1)
            + chars_div_4(ephemeral_list(call'.ephemeral), 1) > max_total)
        => /\ file_messages' = file_messages
           /\ \A i \in 1..Len(file_messages) :
                  /\ Len(built'[1 + i].content) <= 2 * max_file_tokens
                  /\ chars_div_4(<<built'[1 + i]>>, 1)
                         <= chars_div_4(<<file_messages[i]>>, 1)

C34_EmergencyTruncation == [][C34_Step]_vars

\* a build over budget with a pinned document whose stored entry is longer
\* than the emergency budget
C34_Witness ==
    /\ call.op = "build_messages"
    /\ ~fits(0)
    /\ file_messages # <<>>
    /\ pinned_files # {}
    /\ Len(file_messages[1].content) > 2 * max_file_tokens
    /\ Len(built[2].content) = 2 * max_file_tokens

\* C40: build_messages leaves the conversation layer, the document layer and
\* the pin set as they were, and a second build with the same argument
\* returns the same list as the first.
C40_Step ==
    call'.op = "build_messages" =>
        /\ convo_messages' = convo_messages
        /\ file_messages' = file_messages
        /\ pinned_files' = pinned_files
        /\ (call.op = "build_messages" /\ call'.ephemeral = call.ephemeral)
               => built' = built

C40_BuildReadOnly == [][C40_Step]_vars

\* a build that dropped stored turns and shrank a pinned document, all of
\* which are still stored
C40_Witness ==
    /\ call.op = "build_messages"
    /\ Len(convo_messages) >= 2
    /\ built_convo = <<>>
    /\ pinned_files # {}
    /\ built[2] # to_dict(file_messages[1])

\* C35: no provider attempt is started in a send that has already
\* accumulated content, so the content of an abandoned attempt is never
\* followed by a replay of the stream.
C35_Step == creates' = creates + 1 => full_response = ""

C35_RetryOnlyBeforeYield == [][C35_Step]_vars

\* C36: the first wait of a send is the base delay and every further wait is
\* twice the one before it; a send has waited once per transient failure.
C36_BackoffSchedule ==
    /\ Len(waits) = transients
    /\ \A i \in 1..Len(waits) :
           waits[i] = (IF i = 1 THEN RETRY_DELAY ELSE 2 * waits[i - 1])

\* the second send of a session has waited 1.5 s and 3.0 s
C36_Witness ==
    /\ sends = 2
    /\ waits = <<15, 30>>
    /\ attempt = 2

\* C37: every send that has started returns, with exactly one of the
\* outcomes completed, cancelled or failed.
C37_Termination ==
    (pc = "build")
        ~> (pc = "returned" /\ outcome \in {"completed", "cancelled", "failed"})

\* a send with max_retries = 0 has returned as failed, one with retries
\* left has been through two failed attempts
C37_Witness ==
    /\ pc = "returned"
    /\ outcome = "failed"
    /\ \/ max_retries = 0 /\ creates = 0
       \/ max_retries = 2 /\ transients = 2

\* C38: a send that is in a backoff wait leaves it only by the end of the
\* wait, which leads to the next attempt.
C38_Step == pc = "sleep" => pc' = "attempt"

C38_BackoffNotCancellable == [][C38_Step]_vars

\* C39: the message list handed to the provider ends with a user message
\* whose content is the text of the send.
C39_UserTextReachesProvider ==
    pc \in {"attempt", "streaming", "sleep"} =>
        /\ messages # <<>>
        /\ messages[Len(messages)] = [role |-> "user", content |-> user_message]

====
